---- MODULE Spec2Model ----
(***************************************************************************)
(* Model of validation/duckdb_validation.py: the post-build validator of   *)
(* the job_ads DuckDB warehouse.  One run of the script is a sequential    *)
(* process (module load, connect, one existence check and one schema check *)
(* per relation, the data tests, close and exit); the database and the     *)
(* adapter's failures are the environment.                                 *)
(***************************************************************************)
EXTENDS Integers, Sequences, FiniteSets, TLC

(* ------------------------------ bounds --------------------------------- *)
\* how many relations of the contract are in the model
NumTables == 2
\* how many declared columns of each relation are in the model
NumCols == 2
\* job_description_id values a relation may hold (1..MaxKey)
MaxKey == 1
\* how many times, in one run, the database departs from the healthy
\* warehouse or the adapter fails
MaxDeviations == 2

(* ----------------------- type strings as characters -------------------- *)
INTEGER == <<"I","N","T","E","G","E","R">>
VARCHAR == <<"V","A","R","C","H","A","R">>
DOUBLE == <<"D","O","U","B","L","E">>
TIMESTAMP == <<"T","I","M","E","S","T","A","M","P">>
\* live type strings DESCRIBE may report besides the two above
UINTEGER == <<"U","I","N","T","E","G","E","R">>
VarcharN == <<"V","a","r","c","h","a","r","(","1","6",")">>

LiveTypes == {INTEGER, UINTEGER, VARCHAR, VarcharN}

UpperCase == <<"A","B","C","D","E","F","G","H","I","J","K","L","M",
               "N","O","P","Q","R","S","T","U","V","W","X","Y","Z">>
LowerCase == <<"a","b","c","d","e","f","g","h","i","j","k","l","m",
               "n","o","p","q","r","s","t","u","v","w","x","y","z">>

\* str.lower(), character by character
LowerChar(c) ==
    IF \E k \in 1..26 : UpperCase[k] = c
    THEN LowerCase[CHOOSE k \in 1..26 : UpperCase[k] = c]
    ELSE c

Lower(s) == [k \in 1..Len(s) |-> LowerChar(s[k])]

\* Python's `needle in hay` for strings: scan the start positions left to right
RECURSIVE FindFrom(_, _, _)
FindFrom(needle, hay, k) ==
    IF k + Len(needle) - 1 > Len(hay) THEN FALSE
    ELSE IF SubSeq(hay, k, k + Len(needle) - 1) = needle THEN TRUE
    ELSE FindFrom(needle, hay, k + 1)

StrIn(needle, hay) == FindFrom(needle, hay, 1)

\* a faulty comparison: exact string equality instead of containment
TypeMatchesExact(expected_type, actual_type) == expected_type = actual_type

\* line 172, negated: expected_type.lower() in actual[col].lower()
TypeMatches(expected_type, actual_type) ==
    StrIn(Lower(expected_type), Lower(actual_type))

Min(a, b) == IF a < b THEN a ELSE b

(* --------------------------- the contract ------------------------------ *)
MartColumns ==
    << <<"vacancies", INTEGER>>, <<"occupation", VARCHAR>>,
       <<"occupation_field", VARCHAR>>, <<"application_deadline", TIMESTAMP>>,
       <<"headline", VARCHAR>>, <<"employer_name", VARCHAR>>,
       <<"employment_type", VARCHAR>>, <<"salary_type", VARCHAR>>,
       <<"duration", VARCHAR>>, <<"workplace_region", VARCHAR>>,
       <<"job_description_id", INTEGER>>, <<"description_html", VARCHAR>>,
       <<"occupation_group", VARCHAR>> >>

\* the dict of lines 23-116, in insertion order
EXPECTED_SCHEMAS ==
    << [table |-> "fct_job_ads", cols |->
         << <<"job_description_id", INTEGER>>, <<"auxilliary_id", VARCHAR>>,
            <<"employer_id", VARCHAR>>, <<"job_details_id", VARCHAR>>,
            <<"occupation_id", VARCHAR>>, <<"vacancies", INTEGER>>,
            <<"relevance", DOUBLE>>, <<"application_deadline", TIMESTAMP>> >>],
       [table |-> "dim_occupation", cols |->
         << <<"occupation_id", VARCHAR>>, <<"occupation", VARCHAR>>,
            <<"occupation_group", VARCHAR>>, <<"occupation_field", VARCHAR>> >>],
       [table |-> "dim_job_details", cols |->
         << <<"job_details_id", VARCHAR>>, <<"employment_type", VARCHAR>>,
            <<"salary_type", VARCHAR>>, <<"duration", VARCHAR>>,
            <<"scope_of_work_min", INTEGER>>, <<"scope_of_work_max", INTEGER>> >>],
       [table |-> "dim_job_description", cols |->
         << <<"job_description_id", INTEGER>>, <<"headline", VARCHAR>>,
            <<"description_text", VARCHAR>>, <<"description_html", VARCHAR>> >>],
       [table |-> "dim_employer", cols |->
         << <<"employer_id", VARCHAR>>, <<"employer_name", VARCHAR>>,
            <<"employer_workplace", VARCHAR>>,
            <<"employer_organization_number", VARCHAR>>,
            <<"workplace_street_address", VARCHAR>>,
            <<"workplace_region", VARCHAR>>, <<"workplace_postcode", VARCHAR>>,
            <<"workplace_city", VARCHAR>>, <<"workplace_country", VARCHAR>> >>],
       [table |-> "dim_auxilliary_attributes", cols |->
         << <<"auxilliary_id", VARCHAR>>, <<"experience_required", VARCHAR>>,
            <<"access_to_own_car", VARCHAR>>,
            <<"driving_license_required", VARCHAR>> >>],
       [table |-> "mart_it", cols |-> MartColumns],
       [table |-> "mart_economics", cols |-> MartColumns],
       [table |-> "mart_construction", cols |-> MartColumns] >>

\* the order in which the bound NumTables takes relations into the model:
\* the fact relation, then marts and dimensions in turn
Preference ==
    <<"fct_job_ads", "mart_it", "dim_occupation", "mart_economics",
      "dim_job_details", "mart_construction", "dim_job_description",
      "dim_employer", "dim_auxilliary_attributes">>

\* the relations the bound keeps; they stay in declaration order
InModel(entry) ==
    \E k \in 1..Min(NumTables, Len(Preference)) : Preference[k] = entry.table

\* the contract the run iterates over: the kept relations with their first
\* NumCols declared columns
Schemas ==
    LET kept == SelectSeq(EXPECTED_SCHEMAS, InModel)
    IN  [k \in 1..Len(kept) |->
           [table |-> kept[k].table,
            cols  |-> SubSeq(kept[k].cols, 1, Min(NumCols, Len(kept[k].cols)))]]

Tables == {Schemas[k].table : k \in 1..Len(Schemas)}

ColumnsOf(table) ==
    LET e == Schemas[CHOOSE k \in 1..Len(Schemas) : Schemas[k].table = table]
    IN  e.cols

ColumnNames(cols) == {cols[k][1] : k \in 1..Len(cols)}

\* a live column no contract declares
ExtraColumn == "loaded_at"

(* --------------------------- the data tests ---------------------------- *)
\* lines 122-127: one not-empty test per declared relation
NotEmptyTest(table) ==
    [description |-> <<table, " should not be empty">>,
     query       |-> [op |-> "count_gt_0", from |-> table, ref |-> table],
     expected    |-> TRUE]

\* lines 130-146: the three mart -> fct_job_ads referential tests
MartTest(descr, mart) ==
    [description |-> <<descr>>,
     query       |-> [op |-> "antijoin_eq_0", from |-> mart, ref |-> "fct_job_ads"],
     expected    |-> TRUE]

MartTests ==
    << MartTest("All job_description_ids in mart_IT must exist in fct_job_ads",
                "mart_it"),
       MartTest("All job_description_ids in mart_economics must exist in fct_job_ads",
                "mart_economics"),
       MartTest("All job_description_ids in mart_construction must exist in fct_job_ads",
                "mart_construction") >>

TestInModel(test) == test.query.from \in Tables

DATA_TESTS ==
    [k \in 1..Len(Schemas) |-> NotEmptyTest(Schemas[k].table)]
      \o SelectSeq(MartTests, TestInModel)

(* ------------------------ the database (environment) ------------------- *)
Keys == 1..MaxKey

\* a relation of the database: absent, or present with the set of
\* job_description_id values (row identities) it holds
Absent == [present |-> FALSE, keys |-> {}]
Healthy == [present |-> TRUE, keys |-> Keys]
Relations == {Absent} \cup {[present |-> TRUE, keys |-> ks] : ks \in SUBSET Keys}

\* what SHOW TABLES lists (line 151)
ShowTables(database) == {t \in Tables : database[t].present}

\* what the engine answers to a query of DATA_TESTS: a catalog error when a
\* relation the query names is absent, the scalar otherwise
Execute(database, query) ==
    IF ~database[query.from].present \/ ~database[query.ref].present
    THEN [raised |-> "Error", value |-> FALSE]
    ELSE IF query.op = "count_gt_0"
         THEN [raised |-> "none",
               value  |-> Cardinality(database[query.from].keys) > 0]
         ELSE [raised |-> "none",
               value  |-> Cardinality(database[query.from].keys
                                        \ database[query.ref].keys) = 0]

\* con.execute(query).fetchone()[0] (line 182): the engine's answer, unless
\* the call raises or fetchone() is None, when None[0] raises TypeError
FetchScalar(database, query, fault) ==
    IF fault = "norow" THEN [raised |-> "TypeError", value |-> FALSE]
    ELSE IF fault # "none" THEN [raised |-> fault, value |-> FALSE]
    ELSE Execute(database, query)

\* what `except Exception` (lines 162, 187, 196) catches
ExceptionClass == {"Error", "TypeError"}

(* ------------------------------ output --------------------------------- *)
NoType == <<>>

\* str() of a bool, as the f-string of line 185 formats it
PyStr(b) == IF b THEN <<"T","r","u","e">> ELSE <<"F","a","l","s","e">>

Line(kind, subject, col, expected, actual) ==
    [kind |-> kind, subject |-> subject, col |-> col,
     expected |-> expected, actual |-> actual]

\* the traceback the interpreter prints for an exception nothing caught
Traceback(exc) == Line("Traceback", exc, "", NoType, NoType)

StructuralKinds == {"MissingTable", "DescribeError", "MissingColumn", "TypeMismatch"}
DataKinds == {"DataTestFailed", "DataTestError"}
FindingKinds == StructuralKinds \cup DataKinds
SummaryKinds == {"Succeeded", "Failed"}

(* ---------------------------- the validators --------------------------- *)
\* a faulty validate_table_exists: reports nothing and returns True
validate_table_exists_silent(listed, table) ==
    [ret |-> TRUE, printed |-> <<>>]

\* lines 150-155, given what SHOW TABLES listed
validate_table_exists(listed, table) ==
    IF table \notin listed
    THEN [ret |-> FALSE,
          printed |-> <<Line("MissingTable", table, "", NoType, NoType)>>]
    ELSE [ret |-> TRUE, printed |-> <<>>]

\* the dict `actual` of line 161 as a set of <<column, type>> pairs
HasColumn(actual, col) == \E p \in actual : p[1] = col
TypeOf(actual, col) == (CHOOSE p \in actual : p[1] = col)[2]

\* the loop of lines 167-174 from column k on
RECURSIVE SchemaLoop(_, _, _, _, _, _)
SchemaLoop(actual, table, expected_cols, k, ok, printed) ==
    IF k > Len(expected_cols) THEN [ret |-> ok, printed |-> printed]
    ELSE LET col == expected_cols[k][1]
             expected_type == expected_cols[k][2]
         IN  IF ~HasColumn(actual, col)
             THEN SchemaLoop(actual, table, expected_cols, k + 1, FALSE,
                    Append(printed,
                           Line("MissingColumn", table, col, NoType, NoType)))
             ELSE IF ~TypeMatches(expected_type, TypeOf(actual, col))
             THEN SchemaLoop(actual, table, expected_cols, k + 1, FALSE,
                    Append(printed,
                           Line("TypeMismatch", table, col, expected_type,
                                TypeOf(actual, col))))
             ELSE SchemaLoop(actual, table, expected_cols, k + 1, ok, printed)

\* lines 158-175, given what DESCRIBE answered: an exception (raised) or
\* the live columns (actual)
validate_schema(described, table, expected_cols) ==
    IF described.raised = "none"
    THEN SchemaLoop(described.actual, table, expected_cols, 1, TRUE, <<>>)
           @@ [raised |-> "none"]
    ELSE IF described.raised \in ExceptionClass
    THEN [raised |-> "none", ret |-> FALSE,
          printed |-> <<Line("DescribeError", table, "", NoType, NoType)>>]
    ELSE [raised |-> described.raised, ret |-> FALSE, printed |-> <<>>]

\* a faulty iteration: prints the lines but never clears `success`
RunDataTestKeep(test, result, success) ==
    IF result.raised = "none"
    THEN IF result.value # test.expected
         THEN [raised |-> "none", success |-> success,
               printed |-> <<Line("DataTestFailed", test.description, "",
                                  NoType, NoType),
                             Line("ExpectedGot", test.description, "",
                                  PyStr(test.expected), PyStr(result.value))>>]
         ELSE [raised |-> "none", success |-> success, printed |-> <<>>]
    ELSE [raised |-> "none", success |-> success,
          printed |-> <<Line("DataTestError", test.description, "",
                             NoType, NoType)>>]

\* one iteration of the loop of run_data_tests, lines 180-189, given what
\* con.execute(...).fetchone()[0] gave
RunDataTest(test, result, success) ==
    IF result.raised = "none"
    THEN IF result.value # test.expected
         THEN [raised |-> "none", success |-> FALSE,
               printed |-> <<Line("DataTestFailed", test.description, "",
                                  NoType, NoType),
                             Line("ExpectedGot", test.description, "",
                                  PyStr(test.expected), PyStr(result.value))>>]
         ELSE [raised |-> "none", success |-> success, printed |-> <<>>]
    ELSE IF result.raised \in ExceptionClass
    THEN [raised |-> "none", success |-> FALSE,
          printed |-> <<Line("DataTestError", test.description, "",
                             NoType, NoType)>>]
    ELSE [raised |-> result.raised, success |-> success, printed |-> <<>>]

(* ------------------------------- state --------------------------------- *)
VARIABLES
    dbExists,     \* os.path.exists(DB_PATH) when the script starts
    optimized,    \* the interpreter runs with -O (assert statements removed)
    db,           \* the database behind the connection: relation -> Relations
    used,         \* deviations of the database and the adapter so far
    pc,           \* position of the run
    i,            \* position of the loop of main over EXPECTED_SCHEMAS
                  \* (past the end once the loop is over)
    j,            \* position of the loop of run_data_tests over DATA_TESTS
    success,      \* `success` of main
    dsuccess,     \* `success` of run_data_tests
    conn,         \* "none", "open" or "closed"
    closes,       \* calls of con.close()
    out,          \* the lines printed, in order
    exitCode,     \* exit status of the process, -1 while it runs
    crash,        \* the exception that left the script uncaught, or "none"
    interrupted,  \* a SIGINT was delivered
    checked,      \* relations whose validate_table_exists returned
    schemaRun,    \* relation -> what DESCRIBE gave and validate_schema returned
    answers,      \* what con.execute(...).fetchone()[0] gave, per test run
    dataRet       \* <<>> or <<what run_data_tests returned>>

env == <<dbExists, optimized, db>>
hist == <<checked, schemaRun, answers, dataRet>>
vars == <<dbExists, optimized, db, used, pc, i, j, success, dsuccess, conn,
          closes, out, exitCode, crash, interrupted, checked, schemaRun,
          answers, dataRet>>

NotRun == [state |-> "none", actual |-> {}, ret |-> FALSE]

\* relations of the database that are not the healthy ones
DbDeviations(database) == Cardinality({t \in Tables : database[t] # Healthy})

Init ==
    /\ dbExists \in BOOLEAN
    /\ optimized \in BOOLEAN
    \* a file that does not exist holds no relation (under -O connect()
    \* creates it empty); one that exists holds the healthy warehouse but for
    \* at most MaxDeviations relations
    /\ IF dbExists
       THEN \E odd \in {S \in SUBSET Tables : Cardinality(S) <= MaxDeviations} :
              \E f \in [odd -> Relations \ {Healthy}] :
                 db = [t \in Tables |-> IF t \in odd THEN f[t] ELSE Healthy]
       ELSE db = [t \in Tables |-> Absent]
    /\ used = IF dbExists THEN DbDeviations(db) ELSE 0
    /\ pc = "load"
    /\ i = 1
    /\ j = 1
    /\ success = TRUE
    /\ dsuccess = TRUE
    /\ conn = "none"
    /\ closes = 0
    /\ out = <<>>
    /\ exitCode = -1
    /\ crash = "none"
    /\ interrupted = FALSE
    /\ checked = {}
    /\ schemaRun = [t \in Tables |-> NotRun]
    /\ answers = <<>>
    /\ dataRet = <<>>

(* ------------------------------ the run -------------------------------- *)
\* an exception nothing catches: the interpreter prints the traceback and
\* exits with status 1 (130, killed by SIGINT, for KeyboardInterrupt); no
\* statement of main after the raising one runs
Uncaught(exc) ==
    /\ out' = Append(out, Traceback(exc))
    /\ exitCode' = IF exc = "KeyboardInterrupt" THEN 130 ELSE 1
    /\ crash' = exc
    /\ pc' = "exited"

\* lines 17-21 and 222-223: the module-level assert, then main()
ModuleLoad ==
    /\ pc = "load"
    /\ IF ~optimized /\ ~dbExists
       THEN Uncaught("AssertionError")
       ELSE /\ pc' = "connect"
            /\ UNCHANGED <<out, exitCode, crash>>
    /\ UNCHANGED <<env, used, i, j, success, dsuccess, conn, closes,
                   interrupted, hist>>

\* lines 194-200
Connect ==
    /\ pc = "connect"
    /\ \E fault \in {"none", "Error"} :
         IF fault = "none"
         THEN /\ conn' = "open"
              /\ success' = TRUE
              /\ pc' = "exists"
              /\ UNCHANGED <<out, exitCode, crash>>
         ELSE IF fault \in ExceptionClass
         THEN /\ out' = Append(out, Line("Fatal", "", "", NoType, NoType))
              /\ exitCode' = 2
              /\ pc' = "exited"
              /\ UNCHANGED <<conn, success, crash>>
         ELSE /\ Uncaught(fault)
              /\ UNCHANGED <<conn, success>>
    /\ UNCHANGED <<env, used, i, j, dsuccess, closes, interrupted, hist>>

\* where the loop of lines 202-207 goes after the relation at position i:
\* the next relation, or run_data_tests (line 209, success = True of line 179)
NextRelation ==
    /\ i' = i + 1
    /\ IF i < Len(Schemas)
       THEN /\ pc' = "exists"
            /\ UNCHANGED <<j, dsuccess>>
       ELSE /\ pc' = "tests"
            /\ j' = 1
            /\ dsuccess' = TRUE

\* lines 203-205: validate_table_exists for the relation at position i;
\* SHOW TABLES runs outside any try
ExistsBody(fault) ==
    /\ pc = "exists"
    /\ LET table == Schemas[i].table
           r == validate_table_exists(ShowTables(db), table)
       IN  IF fault # "none"
           THEN /\ Uncaught(fault)
                /\ UNCHANGED <<i, j, success, dsuccess, checked>>
           ELSE /\ checked' = checked \cup {table}
                /\ out' = out \o r.printed
                /\ UNCHANGED <<exitCode, crash>>
                /\ IF ~r.ret
                   THEN /\ success' = FALSE
                        /\ NextRelation
                   ELSE /\ pc' = "schema"
                        /\ UNCHANGED <<i, j, success, dsuccess>>
    /\ UNCHANGED <<env, conn, closes, schemaRun, answers, dataRet>>

ValidateTableExists ==
    \E fault \in {"none", "Error"} :
       /\ fault # "none" => used < MaxDeviations
       /\ used' = IF fault # "none" THEN used + 1 ELSE used
       /\ ExistsBody(fault)
       /\ UNCHANGED interrupted

\* expected type the contract declares for a column
DeclaredType(table, col) ==
    LET cols == ColumnsOf(table)
    IN  cols[CHOOSE k \in 1..Len(cols) : cols[k][1] = col][2]

\* the live descriptions DESCRIBE may give for a relation of the contract
\* that depart from it in the columns `odd`: a declared column of `odd` is
\* absent or has another type string than the declared one, the undeclared
\* column is there; every other declared column is exactly as declared
LiveDescriptions(table, odd) ==
    LET declared == ColumnNames(ColumnsOf(table))
        choices == {f \in [odd \cap declared -> LiveTypes \cup {NoType}] :
                      \A c \in odd \cap declared : f[c] # DeclaredType(table, c)}
    IN  { {<<c, DeclaredType(table, c)>> : c \in declared \ odd}
            \cup {<<c, f[c]>> : c \in {d \in odd \cap declared : f[d] # NoType}}
            \cup {<<c, VARCHAR>> : c \in odd \ declared}
          : f \in choices }

\* lines 206-207: validate_schema for the relation at position i
SchemaBody(described) ==
    /\ pc = "schema"
    /\ LET table == Schemas[i].table
           r == validate_schema(described, table, Schemas[i].cols)
       IN  IF r.raised # "none"
           THEN /\ Uncaught(r.raised)
                /\ schemaRun' = [schemaRun EXCEPT ![table] =
                      [state |-> "raised", actual |-> {}, ret |-> FALSE]]
                /\ UNCHANGED <<i, j, success, dsuccess>>
           ELSE /\ out' = out \o r.printed
                /\ schemaRun' = [schemaRun EXCEPT ![table] =
                      [state |-> IF described.raised = "none"
                                 THEN "described" ELSE "failed",
                       actual |-> described.actual, ret |-> r.ret]]
                /\ success' = (success /\ r.ret)
                /\ NextRelation
                /\ UNCHANGED <<exitCode, crash>>
    /\ UNCHANGED <<env, conn, closes, checked, answers, dataRet>>

ValidateSchema ==
    /\ pc = "schema"
    /\ \/ \E odd \in SUBSET (ColumnNames(Schemas[i].cols) \cup {ExtraColumn}) :
            /\ used + Cardinality(odd) <= MaxDeviations
            /\ used' = used + Cardinality(odd)
            /\ \E actual \in LiveDescriptions(Schemas[i].table, odd) :
                  SchemaBody([raised |-> "none", actual |-> actual])
       \/ /\ used < MaxDeviations
          /\ used' = used + 1
          /\ SchemaBody([raised |-> "Error", actual |-> {}])
    /\ UNCHANGED interrupted

\* lines 180-190 and 209-210: the iteration of run_data_tests at position j;
\* after the last one the function returns and main folds the result
TestBody(fault) ==
    /\ pc = "tests"
    /\ LET test == DATA_TESTS[j]
           result == FetchScalar(db, test.query, fault)
           r == RunDataTest(test, result, dsuccess)
       IN  IF r.raised # "none"
           THEN /\ Uncaught(r.raised)
                /\ UNCHANGED <<j, success, dsuccess, answers, dataRet>>
           ELSE /\ out' = out \o r.printed
                /\ answers' = Append(answers, result)
                /\ dsuccess' = r.success
                /\ UNCHANGED <<exitCode, crash>>
                /\ j' = j + 1
                /\ IF j < Len(DATA_TESTS)
                   THEN /\ pc' = "tests"
                        /\ UNCHANGED <<success, dataRet>>
                   ELSE /\ dataRet' = <<r.success>>
                        /\ success' = (success /\ r.success)
                        /\ pc' = "finish"
    /\ UNCHANGED <<env, i, conn, closes, checked, schemaRun>>

DataTest ==
    \E fault \in {"none", "Error", "norow"} :
       /\ fault # "none" => used < MaxDeviations
       /\ used' = IF fault # "none" THEN used + 1 ELSE used
       /\ TestBody(fault)
       /\ UNCHANGED interrupted

\* lines 212-219
Finish ==
    /\ pc = "finish"
    /\ conn' = "closed"
    /\ closes' = closes + 1
    /\ out' = Append(out, Line(IF success THEN "Succeeded" ELSE "Failed",
                               "", "", NoType, NoType))
    /\ exitCode' = IF success THEN 0 ELSE 1
    /\ pc' = "exited"
    /\ UNCHANGED <<env, used, i, j, success, dsuccess, crash, interrupted, hist>>

\* a SIGINT delivered while a check runs: the interpreter raises
\* KeyboardInterrupt in the statement that is running
Interrupt ==
    /\ pc \in {"exists", "schema", "tests"}
    /\ interrupted' = TRUE
    /\ UNCHANGED used
    /\ \/ ExistsBody("KeyboardInterrupt")
       \/ SchemaBody([raised |-> "KeyboardInterrupt", actual |-> {}])
       \/ TestBody("KeyboardInterrupt")

Next ==
    \/ ModuleLoad
    \/ Connect
    \/ ValidateTableExists
    \/ ValidateSchema
    \/ DataTest
    \/ Finish

Spec == Init /\ [][Next]_vars

NextCancel ==
    \/ Next
    \/ Interrupt

SpecCancel == Init /\ [][NextCancel]_vars

(* ------------------------------ properties ----------------------------- *)
\* positions of the output that hold a line of the given kind about the
\* given relation (or test description) and column
LinesOf(kind, subject, col) ==
    {k \in 1..Len(out) : /\ out[k].kind = kind
                         /\ out[k].subject = subject
                         /\ out[k].col = col}

\* positions of the output that hold a finding
Findings == {k \in 1..Len(out) : out[k].kind \in FindingKinds}

\* the run is over and it had opened the connection
EndedAfterOpen == pc = "exited" /\ conn # "none"

PositionInSchemas(table) ==
    CHOOSE k \in 1..Len(Schemas) : Schemas[k].table = table

\* C1: a run that opened the connection exits 0 exactly when it printed no
\* finding and exits 1 exactly when it printed one or more
C1_ExitCodeTellsFindings ==
    EndedAfterOpen =>
        /\ (exitCode = 0) <=> (Findings = {})
        /\ (exitCode = 1) <=> (Findings # {})

\* C2: with no file at DB_PATH the run ends with exit code 2, one fatal
\* message, no finding, and no structural or data check run
C2_MissingDatabaseIsFatal ==
    (pc = "exited" /\ ~dbExists) =>
        /\ exitCode = 2
        /\ Cardinality({k \in 1..Len(out) : out[k].kind = "Fatal"}) = 1
        /\ Len(out) = 1
        /\ checked = {}
        /\ answers = <<>>

\* C3: a run that opened the connection has closed it exactly once when the
\* process ends, and never closes it twice
C3_ClosedExactlyOnce ==
    /\ closes <= 1
    /\ EndedAfterOpen => (closes = 1 /\ conn = "closed")

\* C4: no failure of an adapter call made on the open connection leaves the
\* validator that made the call
C4_NoAdapterFailurePropagates ==
    conn # "none" => crash = "none"

\* C5: a declared relation that SHOW TABLES does not list gets exactly one
\* missing-relation line and no column or describe line, its schema is not
\* validated, and the loop of main goes on past it
C5_MissingRelation ==
    \A t \in checked :
        t \notin ShowTables(db) =>
            /\ Cardinality(LinesOf("MissingTable", t, "")) = 1
            /\ \A k \in 1..Len(out) :
                  out[k].kind \in {"MissingColumn", "TypeMismatch", "DescribeError"}
                     => out[k].subject # t
            /\ schemaRun[t].state = "none"
            /\ i > PositionInSchemas(t)

\* C5 happens: a run that met an absent relation reached its end
C5_Witness ==
    /\ pc = "exited"
    /\ crash = "none"
    /\ \E t \in checked : t \notin ShowTables(db)
    /\ \E t \in checked : schemaRun[t].state = "described"

\* two characters that are the same letter, whatever their case
SameLetter(x, y) ==
    \/ x = y
    \/ \E k \in 1..26 : {x, y} = {UpperCase[k], LowerCase[k]}

\* the live type holds the expected type token somewhere, case ignored
HoldsToken(expected_type, actual_type) ==
    \E k \in 0..Len(actual_type) :
        /\ k + Len(expected_type) <= Len(actual_type)
        /\ \A m \in 1..Len(expected_type) :
              SameLetter(expected_type[m], actual_type[k + m])

ColumnFindingsOf(t) ==
    {k \in 1..Len(out) : /\ out[k].kind \in {"MissingColumn", "TypeMismatch"}
                         /\ out[k].subject = t}

\* C6: for a relation that was described, every declared column has no line
\* when it is there with a type that holds the expected token, exactly one
\* missing-column line when it is not there, exactly one type-mismatch line
\* with the expected and the live type when its type does not hold the token;
\* validate_schema returned True exactly when it printed no such line
C6_ColumnFindings ==
    \A t \in Tables :
        schemaRun[t].state = "described" =>
            LET actual == schemaRun[t].actual
                cols == ColumnsOf(t)
            IN  /\ \A n \in 1..Len(cols) :
                      LET c == cols[n][1]
                          e == cols[n][2]
                          missing == LinesOf("MissingColumn", t, c)
                          mismatch == LinesOf("TypeMismatch", t, c)
                      IN  IF ~HasColumn(actual, c)
                          THEN Cardinality(missing) = 1 /\ mismatch = {}
                          ELSE IF HoldsToken(e, TypeOf(actual, c))
                          THEN missing = {} /\ mismatch = {}
                          ELSE /\ missing = {}
                               /\ Cardinality(mismatch) = 1
                               /\ \A k \in mismatch :
                                     /\ out[k].expected = e
                                     /\ out[k].actual = TypeOf(actual, c)
                /\ schemaRun[t].ret <=> (ColumnFindingsOf(t) = {})

\* C6 happens: one described relation with a column that is not there, and a
\* described relation with a column of a type that does not hold the token
\* and one with a column whose type holds it without being equal to it
C6_Witness ==
    /\ \E t \in Tables :
          /\ schemaRun[t].state = "described"
          /\ \E n \in 1..Len(ColumnsOf(t)) :
                ~HasColumn(schemaRun[t].actual, ColumnsOf(t)[n][1])
          /\ \E n \in 1..Len(ColumnsOf(t)) :
                /\ HasColumn(schemaRun[t].actual, ColumnsOf(t)[n][1])
                /\ ~HoldsToken(ColumnsOf(t)[n][2],
                               TypeOf(schemaRun[t].actual, ColumnsOf(t)[n][1]))
    /\ pc = "exited"

\* position in DATA_TESTS of the test a data line is about
TestOfLine(k) ==
    CHOOSE n \in 1..Len(DATA_TESTS) : DATA_TESTS[n].description = out[k].subject

DataFindings == {k \in 1..Len(out) : out[k].kind \in DataKinds}

\* C7: every test that has run has exactly one error line when its query
\* raised, exactly one failed line when the scalar differs from the expected
\* value, and no line otherwise; the lines come in declaration order; once
\* run_data_tests has returned every test has run and the value returned is
\* True exactly when there is no such line
C7_DataTests ==
    /\ Len(answers) <= Len(DATA_TESTS)
    /\ \A n \in 1..Len(answers) :
          LET test == DATA_TESTS[n]
              failed == LinesOf("DataTestFailed", test.description, "")
              error == LinesOf("DataTestError", test.description, "")
          IN  IF answers[n].raised # "none"
              THEN Cardinality(error) = 1 /\ failed = {}
              ELSE IF answers[n].value # test.expected
              THEN Cardinality(failed) = 1 /\ error = {}
              ELSE failed = {} /\ error = {}
    /\ \A k1, k2 \in DataFindings :
          k1 < k2 => TestOfLine(k1) < TestOfLine(k2)
    /\ \A k \in DataFindings : TestOfLine(k) <= Len(answers)
    /\ dataRet # <<>> =>
          /\ Len(answers) = Len(DATA_TESTS)
          /\ dataRet[1] <=> (DataFindings = {})

\* C7 happens: run_data_tests returned after a query that raised, a query
\* that gave the unexpected scalar and a query that gave the expected one
C7_Witness ==
    /\ dataRet # <<>>
    /\ \E n \in 1..Len(answers) : answers[n].raised # "none"
    /\ \E n \in 1..Len(answers) :
          answers[n].raised = "none" /\ answers[n].value # DATA_TESTS[n].expected
    /\ \E n \in 1..Len(answers) :
          answers[n].raised = "none" /\ answers[n].value = DATA_TESTS[n].expected

\* C8: a run that opened the connection has, when it ends, checked the
\* existence of every relation, validated the schema of every existing one
\* and run every data test
C8_NoShortCircuit ==
    EndedAfterOpen =>
        /\ checked = Tables
        /\ \A t \in ShowTables(db) : schemaRun[t].state \in {"described", "failed"}
        /\ Len(answers) = Len(DATA_TESTS)

\* C9: a run that a cancellation signal ended has printed a Cancelled finding
C9_CancelledFindingEmitted ==
    (interrupted /\ pc = "exited") =>
        \E k \in 1..Len(out) : out[k].kind = "Cancelled"

\* C10: when a run that opened the connection ends, every absent relation has
\* its one missing-relation line and an error line for each data test that
\* names it, every structural line comes before every data line, and the
\* summary line is the last line
C10_AbsentRelationDataErrors ==
    EndedAfterOpen =>
        /\ \A t \in Tables \ ShowTables(db) :
              /\ Cardinality(LinesOf("MissingTable", t, "")) = 1
              /\ \A n \in 1..Len(DATA_TESTS) :
                    t \in {DATA_TESTS[n].query.from, DATA_TESTS[n].query.ref} =>
                       LinesOf("DataTestError", DATA_TESTS[n].description, "") # {}
        /\ \A k1, k2 \in 1..Len(out) :
              (out[k1].kind \in StructuralKinds /\ out[k2].kind \in DataKinds)
                 => k1 < k2
        /\ out[Len(out)].kind \in SummaryKinds

====
